---- MODULE Spec2Model ----
(***************************************************************************)
(* Model of the scheduled refresh + read core of agriculture_app_setup.js. *)
(*                                                                         *)
(* The server registers one cron trigger per feed (lines 42-47) and one    *)
(* GET endpoint per feed (lines 49-73).  A refresh run (lines 83-91)       *)
(* awaits the provider fetch (101-105) and then the Firestore write        *)
(* (107-112); a read (114-117) returns the stored document.  The only      *)
(* store is the Firestore document of the feed: there is no in-memory      *)
(* cache.  The source gives the market feed in full and states that the    *)
(* other feeds repeat the same pattern (line 119), so every operation is   *)
(* parameterised by the feed.                                              *)
(*                                                                         *)
(* A JSON object is a function from its keys to its values.  Timestamps    *)
(* are clock readings; toISOString() is a fixed-width, order-preserving    *)
(* rendering of the reading, so the reading itself is stored.              *)
(***************************************************************************)
EXTENDS Integers, Sequences, FiniteSets, TLC

\* ---- bounds ----
MaxRuns == 2
MaxClock == 1

\* ---- feeds, objects ----
Feeds == {"market", "weather"}

EmptyObj == [k \in {} |-> 0]

Obj(keys, v) == [k \in keys |-> v]

\* the bodies a provider may answer with (response.data, line 104)
Payloads ==
  { Obj({"rice"}, 32),
    Obj({"updatedAt"}, 77) }

\* { ...data, updatedAt: new Date().toISOString() }   (lines 108-111)
Spread(data, now) ==
  [k \in DOMAIN data \cup {"updatedAt"} |->
     IF k = "updatedAt" THEN now ELSE data[k]]

\* a Firestore document slot: absent, or present with its fields
NoDoc == [exists |-> FALSE, data |-> EmptyObj]

\* doc(...).set(fields) without merge replaces the whole document (line 108)
DocSetMerge(cur, fields) ==
  [exists |-> TRUE,
   data |-> [k \in DOMAIN cur.data \cup DOMAIN fields |->
               IF k \in DOMAIN fields THEN fields[k] ELSE cur.data[k]]]

DocSet(cur, fields) == [exists |-> TRUE, data |-> fields]

\* the try block of the task encloses both awaits (lines 84-90)
CaughtFetchOnly(step) == step = "fetch"

CaughtSaveOnly(step) == step = "save"

Caught(step) == step \in {"fetch", "save"}

VARIABLES
  clock,    \* the reading new Date() gives now
  db,       \* db[f]: the Firestore document of feed f
  boot,     \* the documents found in Firestore when the process started
  runs,     \* the refresh runs started so far, in start order
  resp,     \* the response the step just taken sent (NoResp: it sent none)
  crashed,  \* "no", or what ended the process: an unhandled rejection
            \* of a "task" or of a "read" handler, or "stopped" from outside
  wire      \* the writes the ended process had already handed to Firestore

vars == <<clock, db, boot, runs, resp, crashed, wire>>

NoResp == [feed |-> "none", status |-> 0, hasBody |-> FALSE, body |-> EmptyObj]

\* a document an earlier process left behind
OldDoc == [exists |-> TRUE, data |-> Spread(Obj({"rice"}, 30), 0)]

Init ==
  /\ clock = 0
  /\ db \in [Feeds -> {NoDoc, OldDoc}]
  /\ boot = db
  /\ runs = << >>
  /\ resp = NoResp
  /\ crashed = "no"
  /\ wire = {}

\* no reading of the clock: the start of a run is remembered only while its
\* fetch is pending (the task itself never records it)
NoTime == 0 - 1

\* the task function is entered and runs up to its first await:
\* getPricesFromAPI() has issued axios.get (lines 83-85, 101-103)
NewRun(f, now) ==
  [feed |-> f, pc |-> "fetching", startedAt |-> now, fetches |-> 1,
   prices |-> EmptyObj, writes |-> 0, doc |-> EmptyObj, err |-> "none"]

InFlight(r) == runs[r].pc \in {"fetching", "saving"}

\* cron fires the trigger of feed f and calls its task (lines 42-47);
\* node-cron calls the task on every tick and does not await its promise
CronFireGlobalLock(f) ==
  /\ crashed = "no"
  /\ Len(runs) < MaxRuns
  /\ \A r \in 1..Len(runs) : ~InFlight(r)
  /\ runs' = Append(runs, NewRun(f, clock))
  /\ resp' = NoResp
  /\ UNCHANGED <<clock, db, boot, wire, crashed>>

CronFire(f) ==
  /\ crashed = "no"
  /\ Len(runs) < MaxRuns
  /\ runs' = Append(runs, NewRun(f, clock))
  /\ resp' = NoResp
  /\ UNCHANGED <<clock, db, boot, wire, crashed>>

\* the set() calls of the runs rs that Firestore has not yet answered
Sent(rs) ==
  {[feed |-> rs[r].feed, doc |-> rs[r].doc] :
     r \in {i \in 1..Len(rs) : rs[i].pc = "saving"}}

\* a rejection inside the task: handled by the catch (lines 88-90) when the
\* failing await is inside the try block; otherwise it is unhandled and ends
\* the process: its runs are lost with it, the other runs' writes already
\* sent are not
Reject(r, step) ==
  IF Caught(step)
  THEN /\ runs' = [runs EXCEPT ![r].pc = "failed", ![r].err = step,
                               ![r].startedAt = NoTime]
       /\ UNCHANGED <<crashed, wire>>
  ELSE /\ runs' = << >>
       /\ crashed' = "task"
       /\ wire' = Sent([runs EXCEPT ![r].pc = "failed"])

\* axios.get resolves with body p; the task resumes, calls savePricesToDB,
\* which builds the document and issues set() (lines 85-86, 104, 107-111)
FetchOkStale(r, p) ==
  /\ crashed = "no"
  /\ runs[r].pc = "fetching"
  /\ runs' = [runs EXCEPT ![r].pc = "saving",
                          ![r].startedAt = NoTime,
                          ![r].prices = p,
                          ![r].writes = @ + 1,
                          ![r].doc = Spread(IF r > 1 THEN runs[1].prices ELSE p,
                                            clock)]
  /\ resp' = NoResp
  /\ UNCHANGED <<clock, db, boot, wire, crashed>>

FetchOk(r, p) ==
  /\ crashed = "no"
  /\ runs[r].pc = "fetching"
  /\ runs' = [runs EXCEPT ![r].pc = "saving",
                          ![r].startedAt = NoTime,
                          ![r].prices = p,
                          ![r].writes = @ + 1,
                          ![r].doc = Spread(p, clock)]
  /\ resp' = NoResp
  /\ UNCHANGED <<clock, db, boot, wire, crashed>>

\* axios.get rejects (network error, bad status, timeout) (lines 85, 103)
FetchFailWrites(r) ==
  /\ crashed = "no"
  /\ runs[r].pc = "fetching"
  /\ runs' = [runs EXCEPT ![r].pc = "failed", ![r].err = "fetch",
                          ![r].startedAt = NoTime]
  /\ db' = [db EXCEPT ![runs[r].feed] = DocSet(@, Spread(EmptyObj, clock))]
  /\ resp' = NoResp
  /\ UNCHANGED <<clock, boot, wire, crashed>>

FetchFail(r) ==
  /\ crashed = "no"
  /\ runs[r].pc = "fetching"
  /\ Reject(r, "fetch")
  /\ resp' = NoResp
  /\ UNCHANGED <<clock, db, boot>>

\* Firestore applies the write and set() resolves; the task logs success
\* (lines 86-87, 108)
SaveOkWrongDoc(r) ==
  /\ crashed = "no"
  /\ runs[r].pc = "saving"
  /\ db' = [db EXCEPT !["weather"] = DocSet(@, runs[r].doc)]
  /\ runs' = [runs EXCEPT ![r].pc = "done"]
  /\ resp' = NoResp
  /\ UNCHANGED <<clock, boot, wire, crashed>>

SaveOk(r) ==
  /\ crashed = "no"
  /\ runs[r].pc = "saving"
  /\ db' = [db EXCEPT ![runs[r].feed] = DocSet(@, runs[r].doc)]
  /\ runs' = [runs EXCEPT ![r].pc = "done"]
  /\ resp' = NoResp
  /\ UNCHANGED <<clock, boot, wire, crashed>>

\* set() rejects: nothing is stored (lines 86, 108)
SaveFailDeletes(r) ==
  /\ crashed = "no"
  /\ runs[r].pc = "saving"
  /\ runs' = [runs EXCEPT ![r].pc = "failed", ![r].err = "save"]
  /\ db' = [db EXCEPT ![runs[r].feed] = NoDoc]
  /\ resp' = NoResp
  /\ UNCHANGED <<clock, boot, wire, crashed>>

SaveFail(r) ==
  /\ crashed = "no"
  /\ runs[r].pc = "saving"
  /\ Reject(r, "save")
  /\ resp' = NoResp
  /\ UNCHANGED <<clock, db, boot>>

\* doc.data(): the fields of the document, undefined when it does not exist
\* (lines 115-116)
getCachedPrices(d) == d

\* res.json(data) answers 200; undefined serialises to an empty body
\* (lines 56-57)
Respond(f, d) ==
  [feed |-> f, status |-> 200, hasBody |-> d.exists, body |-> d.data]

\* GET /api/<feed> (lines 55-58, 114-117)
ReadOkWaits(f) ==
  /\ crashed = "no"
  /\ \A r \in 1..Len(runs) : ~(runs[r].feed = f /\ InFlight(r))
  /\ resp' = Respond(f, getCachedPrices(db[f]))
  /\ UNCHANGED <<clock, db, boot, wire, runs, crashed>>

ReadOkTouches(f) ==
  /\ crashed = "no"
  /\ resp' = Respond(f, getCachedPrices(db[f]))
  /\ db' = [db EXCEPT ![f] = DocSet(@, Spread(@.data, clock))]
  /\ UNCHANGED <<clock, boot, wire, runs, crashed>>

ReadOk(f) ==
  /\ crashed = "no"
  /\ resp' = Respond(f, getCachedPrices(db[f]))
  /\ UNCHANGED <<clock, db, boot, wire, runs, crashed>>

\* the Firestore get() rejects inside the async handler, which has no
\* try/catch (lines 55-58): the framework's error handler answers 500, or
\* the rejection is unhandled and ends the process
ReadFail(f) ==
  /\ crashed = "no"
  /\ \/ /\ resp' = [feed |-> f, status |-> 500, hasBody |-> FALSE,
                    body |-> EmptyObj]
        /\ UNCHANGED <<crashed, runs, wire>>
     \/ /\ crashed' = "read"
        /\ resp' = NoResp
        /\ runs' = << >>
        /\ wire' = Sent(runs)
  /\ UNCHANGED <<clock, db, boot>>

\* the process is terminated from outside; the server installs no signal
\* handler and never stops its cron tasks, so it ends at once (lines 42-47,
\* 75-76): its runs are lost, the writes already sent are not
Stop ==
  /\ crashed = "no"
  /\ crashed' = "stopped"
  /\ runs' = << >>
  /\ wire' = Sent(runs)
  /\ resp' = NoResp
  /\ UNCHANGED <<clock, db, boot>>

\* Firestore applies a write whose process has ended (line 108)
Land(w) ==
  /\ crashed # "no"
  /\ w \in wire
  /\ db' = [db EXCEPT ![w.feed] = DocSet(@, w.doc)]
  /\ wire' = wire \ {w}
  /\ UNCHANGED <<clock, boot, runs, resp, crashed>>

\* time passes
Tick ==
  /\ clock < MaxClock
  /\ clock' = clock + 1
  /\ resp' = NoResp
  /\ UNCHANGED <<db, boot, wire, runs, crashed>>

Next ==
  \/ \E f \in Feeds : CronFire(f)
  \/ \E r \in 1..Len(runs) : \E p \in Payloads : FetchOk(r, p)
  \/ \E r \in 1..Len(runs) : FetchFail(r)
  \/ \E r \in 1..Len(runs) : SaveOk(r)
  \/ \E r \in 1..Len(runs) : SaveFail(r)
  \/ \E f \in Feeds : ReadOk(f)
  \/ \E f \in Feeds : ReadFail(f)
  \/ Stop
  \/ \E w \in wire : Land(w)
  \/ Tick

Spec == Init /\ [][Next]_vars

\* Firestore answers a set() or the client gives up on it
SaveStep == \E r \in 1..Len(runs) : SaveOk(r) \/ SaveFail(r)

\* Time passes and every pending set() is settled: the Firestore client
\* bounds its calls with a deadline.  Nothing settles a pending fetch:
\* axios.get is called without a timeout (line 103), and nothing makes a
\* trigger fire or a request arrive.
LiveSpec == Spec /\ WF_vars(Tick) /\ WF_vars(SaveStep)

TypeOK ==
  /\ clock \in 0..MaxClock
  /\ crashed \in {"no", "task", "read", "stopped"}
  /\ crashed = "no" => wire = {}
  /\ Len(runs) <= MaxRuns
\* ---- derived notions ----
RunIds == 1..Len(runs)

RunsOf(f) == {r \in RunIds : runs[r].feed = f}

Stamp(d) == d.data["updatedAt"]

\* ---- C1 ----
\* C1: the timestamp of the stored (readable) snapshot of a feed never
\* decreases, whatever the order in which overlapping runs complete.
C1_Monotonic ==
  [][\A f \in Feeds :
       (db[f].exists /\ db'[f].exists) => Stamp(db'[f]) >= Stamp(db[f])]_vars

\* ---- C2 ----
\* C2: at most one refresh run of a feed is in flight at any time.
C2_SkipIfBusy ==
  \A f \in Feeds : Cardinality({r \in RunsOf(f) : InFlight(r)}) <= 1

\* ---- C3 ----
\* C3: a read answers with nothing only when the feed was never stored, and
\* otherwise with a body equal in full to the document found at start or to
\* the document one completed write of a refresh run of that feed stored.
C3_NoTearing ==
  (resp.feed \in Feeds /\ resp.status = 200) =>
     IF resp.hasBody
     THEN \/ boot[resp.feed].exists /\ resp.body = boot[resp.feed].data
          \/ \E r \in RunsOf(resp.feed) :
               runs[r].pc = "done" /\ resp.body = runs[r].doc
     ELSE /\ ~boot[resp.feed].exists
          /\ \A r \in RunsOf(resp.feed) : runs[r].pc # "done"

\* a read of market, with one market write pending, answers the document of
\* a completed run, which differs from the pending one and from the old one
C3_Witness ==
  /\ resp.feed = "market" /\ resp.status = 200 /\ resp.hasBody
  /\ boot["market"].exists /\ resp.body # boot["market"].data
  /\ \E r, q \in RunsOf("market") :
       /\ runs[r].pc = "done" /\ resp.body = runs[r].doc
       /\ runs[q].pc = "saving" /\ runs[q].doc # runs[r].doc

\* ---- C4 ----
\* C4: the step in which the fetch of a run fails ends the run as failed,
\* issues no write and leaves every stored document, hence what a read of
\* the feed returns, as it was.
C4_FetchFailNoWrite ==
  [][\A r \in RunIds :
       (runs[r].pc = "fetching" /\ Len(runs') >= r /\ runs'[r].pc = "failed")
          => /\ db' = db
             /\ runs'[r].writes = 0
             /\ Respond(runs[r].feed, getCachedPrices(db'[runs[r].feed]))
                  = Respond(runs[r].feed, getCachedPrices(db[runs[r].feed]))]_vars

\* a market run failed at its fetch after an earlier market run had stored
\* its document, which is still the stored one
C4_Witness ==
  \E r, q \in RunsOf("market") :
    /\ r < q
    /\ runs[r].pc = "done" /\ db["market"].data = runs[r].doc
    /\ runs[q].pc = "failed" /\ runs[q].err = "fetch" /\ runs[q].writes = 0
\* ---- C5 ----
\* every run of feed a so far has failed, or is still waiting, at its fetch
AlwaysFails(a) ==
  \A r \in RunsOf(a) :
    runs[r].pc = "fetching" \/ (runs[r].pc = "failed" /\ runs[r].err = "fetch")

\* the step ends run r at its fetch (not a rejected read handler, nor a
\* termination from outside)
FetchFailStep(r) ==
  /\ runs[r].pc = "fetching"
  /\ crashed' \notin {"read", "stopped"}
  /\ Len(runs') < r \/ runs'[r].pc \notin {"fetching", "saving"}

\* C5: a failing fetch of feed a leaves the process up and every run and the
\* stored document of another feed b as they were; while all fetches of a
\* fail, a run of b can always take its next step, and the step in which its
\* write completes stores exactly its document for b.
C5_FaultIsolation ==
  /\ [](\A a \in Feeds : \A b \in Feeds \ {a} :
          (AlwaysFails(a) /\ crashed = "no") =>
             \A q \in RunsOf(b) :
               /\ runs[q].pc = "fetching" =>
                    \A p \in Payloads : ENABLED FetchOk(q, p)
               /\ runs[q].pc = "saving" => ENABLED SaveOk(q))
  /\ [][/\ \A r \in RunIds :
            FetchFailStep(r) =>
              /\ crashed' = "no"
              /\ \A q \in RunIds \ RunsOf(runs[r].feed) :
                   /\ Len(runs') >= q /\ runs'[q] = runs[q]
                   /\ db'[runs[q].feed] = db[runs[q].feed]
         /\ \A q \in RunIds :
              (/\ runs[q].pc = "saving"
               /\ Len(runs') >= q /\ runs'[q].pc = "done"
               /\ \E a \in Feeds \ {runs[q].feed} : AlwaysFails(a)) =>
                 /\ db'[runs[q].feed].exists
                 /\ db'[runs[q].feed].data = runs[q].doc]_vars

\* a weather fetch has failed and every weather run is failing; a market run
\* started after it has completed and its document is the stored one
C5_Witness ==
  /\ crashed = "no"
  /\ AlwaysFails("weather")
  /\ \E r \in RunsOf("weather") : \E q \in RunsOf("market") :
       /\ r < q
       /\ runs[r].pc = "failed"
       /\ runs[q].pc = "done"
       /\ db["market"].exists /\ db["market"].data = runs[q].doc

\* ---- C6 ----
\* C6: no rejection of a refresh run is left unhandled; every run is waiting
\* at an await or has finished as done or as failed, a failed run by the
\* error of its fetch or of its write.
C6_NoEscape ==
  /\ crashed # "task"
  /\ \A r \in RunIds :
       /\ runs[r].pc \in {"fetching", "saving", "done", "failed"}
       /\ runs[r].pc = "failed" <=> runs[r].err \in {"fetch", "save"}
       /\ runs[r].pc # "failed" => runs[r].err = "none"

\* one run has failed at its fetch and another at its write, and the process
\* is up
C6_Witness ==
  /\ crashed = "no"
  /\ \E r, q \in RunIds :
       /\ runs[r].pc = "failed" /\ runs[r].err = "fetch"
       /\ runs[q].pc = "failed" /\ runs[q].err = "save"

\* ---- C7 ----
\* no refresh of feed f has succeeded in this process
NeverRefreshed(f) == \A r \in RunsOf(f) : runs[r].pc # "done"

\* C7: a read of a feed no refresh has yet succeeded for answers with the
\* persisted document when there is one, and otherwise with a non-200
\* status and an explicit body carrying a status.
C7_ColdStart ==
  (resp.feed \in Feeds /\ NeverRefreshed(resp.feed)) =>
     IF boot[resp.feed].exists
     THEN resp.hasBody /\ resp.body = boot[resp.feed].data
     ELSE /\ resp.status # 200
          /\ resp.hasBody
          /\ "status" \in DOMAIN resp.body

\* ---- C8 ----
\* C8: after a single market run that fetched P and completed, the run has
\* issued exactly one write, a read of market returns P under P's keys, and
\* the read reports a status.
C8_EndToEnd ==
  (/\ Len(runs) = 1
   /\ runs[1].feed = "market" /\ runs[1].pc = "done"
   /\ resp.feed = "market" /\ resp.status = 200) =>
     /\ runs[1].writes = 1
     /\ resp.hasBody
     /\ \A k \in DOMAIN runs[1].prices :
          k \in DOMAIN resp.body /\ resp.body[k] = runs[1].prices[k]
     /\ "status" \in DOMAIN resp.body

\* ---- C9 ----
\* C9: the step in which the write of a run fails leaves the document the
\* run had fetched readable for its feed.
C9_BestEffort ==
  [][\A r \in RunIds :
       (runs[r].pc = "saving" /\ Len(runs') >= r /\ runs'[r].pc = "failed")
          => /\ db'[runs[r].feed].exists
             /\ db'[runs[r].feed].data = runs[r].doc]_vars

\* ---- C10 ----
\* C10: while a run of one feed is waiting at its fetch or its write, the
\* trigger of any other feed can fire and start a run (as long as the
\* process is up and fewer than MaxRuns runs were started).
C10_TriggerIndependence ==
  \A f \in Feeds : \A g \in Feeds \ {f} :
    (/\ crashed = "no"
     /\ Len(runs) < MaxRuns
     /\ \E r \in RunsOf(f) : InFlight(r)) => ENABLED CronFire(g)

\* a market run started after a weather run, and completed, while the
\* weather run is still waiting
C10_Witness ==
  \E r \in RunsOf("weather") : \E q \in RunsOf("market") :
    /\ r < q
    /\ InFlight(r)
    /\ runs[q].pc = "done"
\* ---- C11 ----
\* C11: while a run of a feed is waiting at its fetch or its write, a read of
\* that feed can be served at once, and a served read returns the document
\* stored at that moment.
C11_ReadNeverWaits ==
  /\ \A f \in Feeds :
       (crashed = "no" /\ \E r \in RunsOf(f) : InFlight(r)) => ENABLED ReadOk(f)
  /\ (resp.feed \in Feeds /\ resp.status = 200) =>
       /\ resp.hasBody = db[resp.feed].exists
       /\ resp.body = db[resp.feed].data

\* a read of market is served the stored document while a market run, whose
\* own document differs, is waiting for its write
C11_Witness ==
  /\ resp.feed = "market" /\ resp.status = 200 /\ resp.hasBody
  /\ \E r \in RunsOf("market") :
       runs[r].pc = "saving" /\ runs[r].doc # resp.body

C13_PublishGuard ==
  [][\A r \in RunIds :
       (runs[r].pc = "saving" /\ Len(runs') >= r /\ runs'[r].pc = "done") =>
          db'[runs[r].feed] =
            IF \/ ~db[runs[r].feed].exists
               \/ runs[r].doc["updatedAt"] >= Stamp(db[runs[r].feed])
            THEN [exists |-> TRUE, data |-> runs[r].doc]
            ELSE db[runs[r].feed]]_vars

\* ---- C14 ----
\* C14: the timestamp a run puts in its document is the clock reading at
\* which the run started.
C14_StampIsStart ==
  [][\A r \in RunIds :
       (runs[r].pc = "fetching" /\ Len(runs') >= r /\ runs'[r].pc = "saving")
          => runs'[r].doc["updatedAt"] = runs[r].startedAt]_vars

\* ---- C15 ----
\* the payload names at least one commodity price
HasPrice(p) == DOMAIN p \ {"updatedAt"} # {}

\* C15: a run whose fetched payload holds no commodity price ends as failed
\* and never issues a write.
C15_Validation ==
  \A r \in RunIds :
    (runs[r].pc # "fetching" /\ runs[r].err # "fetch"
       /\ ~HasPrice(runs[r].prices))
      => runs[r].pc = "failed" /\ runs[r].writes = 0
\* ---- C16 ----
\* C16: every run that is waiting for its fetch finishes, as done or as
\* failed, unless the process ends first.
C16_RunTerminates ==
  \A r \in 1..MaxRuns :
    (Len(runs) >= r /\ runs[r].pc = "fetching")
      ~> \/ crashed # "no"
         \/ Len(runs) >= r /\ runs[r].pc \in {"done", "failed"}

\* ---- C17 ----
\* C17: once the process has been told to stop, no run is started and no
\* stored document changes any more: a run in flight at that moment leaves
\* no write behind.
C17_Shutdown ==
  [][crashed = "stopped" => (runs' = runs /\ db' = db)]_vars

C19_ReadsReadOnly ==
  [][/\ (resp' # NoResp \/ (crashed = "no" /\ crashed' = "read")) => db' = db
     /\ db' # db =>
          \/ \E r \in RunIds :
               /\ runs[r].pc = "saving"
               /\ Len(runs') >= r /\ runs'[r].pc = "done"
          \/ wire' # wire]_vars

\* a read of market was answered, with a stored document, between the fetch
\* and the write of a market run
C19_Witness ==
  /\ resp.feed = "market" /\ resp.status = 200 /\ resp.hasBody
  /\ resp.body = db["market"].data
  /\ \E r \in RunsOf("market") : runs[r].pc = "saving"
  /\ \E r \in RunsOf("market") : runs[r].pc = "done"

\* ---- C20 ----
\* C20: a step of a run of one feed (start, fetch result, write result, or
\* its write applied after the process ended) leaves the stored document of
\* every other feed as it was.
C20_OwnFeedOnly ==
  [][/\ \A r \in 1..Len(runs') :
          (r > Len(runs) \/ runs'[r] # runs[r]) =>
             \A g \in Feeds \ {runs'[r].feed} : db'[g] = db[g]
     /\ \A w \in wire \ wire' :
          \A g \in Feeds \ {w.feed} : db'[g] = db[g]]_vars

\* market runs have succeeded and failed while the weather document is still
\* the one found at start
C20_Witness ==
  /\ boot["weather"].exists /\ db["weather"] = boot["weather"]
  /\ db["market"] # boot["market"]
  /\ \E r, q \in RunsOf("market") :
       runs[r].pc = "done" /\ runs[q].pc = "failed"
  /\ RunsOf("weather") = {}
====
